---- MODULE Spec2Model ----
(***************************************************************************)
(* ARPlanes (src/src/ARPlanes.js): an Object3D that mirrors the planes a   *)
(* VRDisplay reports through planesadded / planesupdated / planesremoved   *)
(* events into child renderables, with one material (colour) per plane     *)
(* identifier.                                                             *)
(*                                                                         *)
(* The registry is the triple (planes, children, materialMap) of the       *)
(* ARPlanes instance; nextId is the allocator of object identities (every  *)
(* `new Object3D()` / `material.clone()` is a fresh object).  Each event   *)
(* listener is one action that processes its whole batch.                  *)
(***************************************************************************)
EXTENDS Integers, Sequences, FiniteSets

\* ------------------------------------------------------------ bounds
MaxObjs  == 2        \* renderables constructed over a run
MaxVerts == 4        \* vertices of a plane in the geometry runs
MaxFrames == 3       \* frames the page's render loop draws
MaxHits  == 2        \* hits one hitTest returns

Identifiers == {"p1", "p2"}
Palette     == {"red", "blue"}

\* ------------------------------------------------------------ inputs
\* The flat vertex list of a plane with n vertices: 3n numbers, the pt-th
\* point (from 0) being (pt, 0, pt * pt).
PlaneVertices(n) == [i \in 1..(3 * n) |->
                        LET pt == (i - 1) \div 3
                            k  == (i - 1) % 3
                        IN  IF k = 0 THEN pt ELSE IF k = 1 THEN 0 ELSE pt * pt]

\* A modelMatrix: 16 numbers, column-major; JavaScript's mm[k] is mm[k + 1]
\* here.  In the counting matrix mm[k] = k, so every entry differs.
CountingMatrix == [i \in 1..16 |-> i - 1]
IdentityMatrix == [i \in 1..16 |-> IF i \in {1, 6, 11, 16} THEN 1 ELSE 0]
\* The translation by (7, 8, 9): the identity with mm[12..14] = 7, 8, 9.
TranslationMatrix == [i \in 1..16 |-> IF i \in {1, 6, 11, 16} THEN 1
                                       ELSE IF i \in 13..15 THEN i - 6 ELSE 0]
ModelMatrices == {CountingMatrix, IdentityMatrix, TranslationMatrix}

\* The planes a device may report: an identifier, a vertex list and a
\* modelMatrix.
PlanesWith(counts, matrices) ==
    {[identifier |-> id, vertices |-> PlaneVertices(n), modelMatrix |-> mm] :
        id \in Identifiers, n \in counts, mm \in matrices}

PlanesOf(counts) == PlanesWith(counts, {CountingMatrix})

\* event.planes: a batch of planes in the reported order.  A batch of one
\* plane carries no vertices, a triangle or a quad; a batch of two carries
\* planes with no vertices or a triangle; the empty batch is there too.
Batches == [1..1 -> PlanesOf({0, 3, 4})]
           \cup UNION {[1..n -> PlanesOf({0, 3})] : n \in {0, 2}}

\* The batches of the geometry runs: one plane of 0..MaxVerts vertices.
GeoBatches == [1..1 -> PlanesOf(0..MaxVerts)]

\* The batches of the ordering runs: one plane, without vertices or a
\* triangle.
SingleBatches == [1..1 -> PlanesOf({0, 3})]

\* The batches of the transform runs: one plane, without vertices or a
\* triangle, with any of the model matrices.
MatrixBatches == [1..1 -> PlanesWith({0, 3}, ModelMatrices)]

\* The colours getRandomPaletteColor() returns for the planes of a batch:
\* draws[i] is the colour the i-th plane gets if createPlane draws one.  A
\* plane without vertices returns before the draw, so its colour is fixed.
Draws(batch) ==
    {d \in [1..Len(batch) -> Palette] :
        \A i \in 1..Len(batch) : Len(batch[i].vertices) = 0 => d[i] = "red"}

VARIABLES planes,       \* this.planes: identifier -> planeObj
          children,     \* this.children: the attached renderables, in order
          materialMap,  \* this.materialMap: identifier -> material
          nextId,       \* identity of the next object constructed
          last,         \* the last event delivered, or the last update() call
                        \*   with the value it returned
          reported,     \* history: identifiers named by an add or update and
                        \*   by no later removal
          present,      \* history: as reported, counting only planes that
                        \*   have vertices (see presentAfter)
          \* the page (spawn-at-surface example)
          boot,         \* getARDisplay(): "pending", then how it resolved
          vrDisplay,    \* var vrDisplay
          initCalls,    \* how often init() has run
          unsupported,  \* displayUnsupportedMessage() was called
          renderer,     \* var renderer is set
          touchstart,   \* onClick is bound to the canvas
          frames,       \* frames drawn by update()
          elf,          \* var elf: Undefined until the loader calls back
          touch         \* the last touchstart handled by onClick

regVars == <<planes, children, materialMap, nextId, last, reported, present>>
appVars == <<boot, vrDisplay, initCalls, unsupported, renderer, touchstart,
             frames, elf, touch>>
vars == <<regVars, appVars>>

\* ------------------------------------------------------------ three.js
Null == [null |-> TRUE]

Vector3(x, y, z) == <<x, y, z>>
Face3(a, b, c)   == <<a, b, c>>

\* Object3D.add: a fresh object has no parent and is pushed to children.
Object3DAdd(kids, obj) == Append(kids, obj)

\* Object3D.remove: splices the object out of children when it is there.
Object3DRemove(kids, obj) == SelectSeq(kids, LAMBDA c : c.id # obj.id)

\* Map.set / Map.delete on a map held as a function.
MapSet(m, k, v) == [x \in DOMAIN m \cup {k} |-> IF x = k THEN v ELSE m[x]]
MapDelete(m, k) == [x \in DOMAIN m \ {k} |-> m[x]]

\* ------------------------------------------------------------ createPlane
RECURSIVE generateVertices(_, _)
generateVertices(vertices, pt) ==
    IF 3 * pt < Len(vertices)
    THEN <<Vector3(vertices[pt * 3 + 1], vertices[pt * 3 + 2], vertices[pt * 3 + 3])>>
         \o generateVertices(vertices, pt + 1)
    ELSE <<>>

\* generateFaces with the loop bound off by one (face < length - 1).
RECURSIVE generateFacesOffByOne(_, _)
generateFacesOffByOne(nVertices, face) ==
    IF face < nVertices - 1
    THEN <<Face3(0, face + 1, face + 2)>> \o generateFacesOffByOne(nVertices, face + 1)
    ELSE <<>>

RECURSIVE generateFaces(_, _)
generateFaces(nVertices, face) ==
    IF face < nVertices - 2
    THEN <<Face3(0, face + 1, face + 2)>> \o generateFaces(nVertices, face + 1)
    ELSE <<>>

\* Matrix4.set: sixteen arguments in row-major order, stored column-major
\* in `elements`.
Matrix4Set(n11, n12, n13, n14, n21, n22, n23, n24, n31, n32, n33, n34, n41, n42, n43, n44) ==
    [elements |-> <<n11, n21, n31, n41, n12, n22, n32, n42,
                    n13, n23, n33, n43, n14, n24, n34, n44>>]

\* planeObj.matrix.set(...) with the sixteen values passed in storage
\* order, as if Matrix4.set took them column by column.
planeMatrixInStorageOrder(mm) ==
    Matrix4Set(mm[1],  mm[2],  mm[3],  mm[4],
               mm[5],  mm[6],  mm[7],  mm[8],
               mm[9],  mm[10], mm[11], mm[12],
               mm[13], mm[14], mm[15], mm[16])

\* planeObj.matrix.set(mm[0], mm[4], mm[8], mm[12], mm[1], ...).
planeMatrix(mm) ==
    Matrix4Set(mm[1], mm[5], mm[9],  mm[13],
               mm[2], mm[6], mm[10], mm[14],
               mm[3], mm[7], mm[11], mm[15],
               mm[4], mm[8], mm[12], mm[16])

\* The material of a plane: the stored one, or a clone of DEFAULT_MATERIAL
\* with a newly drawn background colour.
planeMaterial(mm, id, color, fresh) ==
    IF id \in DOMAIN mm
    THEN mm[id]
    ELSE [id |-> fresh, backgroundColor |-> color]

\* createPlane without the empty-vertices guard: a plane with no vertices
\* gets a renderable with an empty mesh.
createPlaneNoGuard(r, plane, color) ==
    LET id       == plane.identifier
        material == planeMaterial(r.materialMap, id, color, r.nextId)
        planeObj == [id               |-> r.nextId,
                     matrixAutoUpdate |-> FALSE,
                     matrix           |-> planeMatrix(plane.modelMatrix),
                     mesh |-> [geometry |-> [vertices |-> generateVertices(plane.vertices, 0),
                                             faces    |-> <<>>],
                               material |-> material]]
    IN  [obj |-> planeObj, materialMap |-> MapSet(r.materialMap, id, material)]

\* createPlane that also returns null for a plane of fewer than three
\* vertices.
createPlaneSkipsDegenerate(r, plane, color) ==
    IF Len(plane.vertices) < 9
    THEN [obj |-> Null, materialMap |-> r.materialMap]
    ELSE LET id       == plane.identifier
             verts    == generateVertices(plane.vertices, 0)
             faces    == generateFaces(Len(verts), 0)
             material == planeMaterial(r.materialMap, id, color, r.nextId)
             planeObj == [id               |-> r.nextId,
                          matrixAutoUpdate |-> FALSE,
                          matrix           |-> planeMatrix(plane.modelMatrix),
                          mesh |-> [geometry |-> [vertices |-> verts, faces |-> faces],
                                    material |-> material]]
         IN  [obj |-> planeObj, materialMap |-> MapSet(r.materialMap, id, material)]

\* createPlane that clones DEFAULT_MATERIAL for every renderable and stores
\* the clone only for an identifier without a stored material.
createPlaneAlwaysClones(r, plane, color) ==
    IF Len(plane.vertices) = 0
    THEN [obj |-> Null, materialMap |-> r.materialMap]
    ELSE LET id       == plane.identifier
             verts    == generateVertices(plane.vertices, 0)
             faces    == generateFaces(Len(verts), 0)
             material == [id |-> r.nextId, backgroundColor |-> color]
             planeObj == [id               |-> r.nextId,
                          matrixAutoUpdate |-> FALSE,
                          matrix           |-> planeMatrix(plane.modelMatrix),
                          mesh |-> [geometry |-> [vertices |-> verts, faces |-> faces],
                                    material |-> material]]
         IN  [obj |-> planeObj,
              materialMap |-> IF id \in DOMAIN r.materialMap
                              THEN r.materialMap
                              ELSE MapSet(r.materialMap, id, material)]

\* createPlane(plane): the renderable (or Null) and the materialMap after.
createPlane(r, plane, color) ==
    IF Len(plane.vertices) = 0
    THEN [obj |-> Null, materialMap |-> r.materialMap]
    ELSE LET id       == plane.identifier
             verts    == generateVertices(plane.vertices, 0)
             faces    == generateFaces(Len(verts), 0)
             material == planeMaterial(r.materialMap, id, color, r.nextId)
             planeObj == [id               |-> r.nextId,
                          matrixAutoUpdate |-> FALSE,
                          matrix           |-> planeMatrix(plane.modelMatrix),
                          mesh |-> [geometry |-> [vertices |-> verts, faces |-> faces],
                                    material |-> material]]
         IN  [obj |-> planeObj, materialMap |-> MapSet(r.materialMap, id, material)]

\* ------------------------------------------------------------ registry
\* addPlane that drops the entry of a plane createPlane gives no renderable.
addPlaneDropsOnNull(r, plane, color) ==
    LET made == createPlane(r, plane, color)
    IN  IF made.obj # Null
        THEN [planes      |-> MapSet(r.planes, plane.identifier, made.obj),
              children    |-> Object3DAdd(r.children, made.obj),
              materialMap |-> made.materialMap,
              nextId      |-> r.nextId + 1]
        ELSE [r EXCEPT !.planes = MapDelete(r.planes, plane.identifier)]

addPlane(r, plane, color) ==
    LET made == createPlane(r, plane, color)
    IN  IF made.obj # Null
        THEN [planes      |-> MapSet(r.planes, plane.identifier, made.obj),
              children    |-> Object3DAdd(r.children, made.obj),
              materialMap |-> made.materialMap,
              nextId      |-> r.nextId + 1]
        ELSE r

\* removePlane that forgets this.planes.delete(identifier).
removePlaneKeepsEntry(r, identifier) ==
    IF identifier \in DOMAIN r.planes
    THEN [r EXCEPT !.children = Object3DRemove(r.children, r.planes[identifier])]
    ELSE r

\* removePlane that also deletes the identifier's material.
removePlaneClearsMaterial(r, identifier) ==
    LET kids == IF identifier \in DOMAIN r.planes
                THEN Object3DRemove(r.children, r.planes[identifier])
                ELSE r.children
    IN  [r EXCEPT !.children    = kids,
                  !.planes      = MapDelete(r.planes, identifier),
                  !.materialMap = MapDelete(r.materialMap, identifier)]

\* removePlane without this.remove(existing).
removePlaneKeepsChild(r, identifier) ==
    [r EXCEPT !.planes = MapDelete(r.planes, identifier)]

\* removePlane that detaches the most recently attached child instead of
\* the renderable it looked up.
removePlaneDetachesLast(r, identifier) ==
    [r EXCEPT !.children = IF Len(r.children) > 0
                           THEN SubSeq(r.children, 1, Len(r.children) - 1)
                           ELSE r.children,
              !.planes   = MapDelete(r.planes, identifier)]

removePlane(r, identifier) ==
    LET kids == IF identifier \in DOMAIN r.planes
                THEN Object3DRemove(r.children, r.planes[identifier])
                ELSE r.children
    IN  [r EXCEPT !.children = kids,
                  !.planes   = MapDelete(r.planes, identifier)]

\* ------------------------------------------------------------ listeners
RECURSIVE planesadded(_, _, _, _)
planesadded(r, batch, draws, i) ==
    IF i > Len(batch) THEN r
    ELSE planesadded(addPlane(r, batch[i], draws[i]), batch, draws, i + 1)

RECURSIVE planesremoved(_, _, _)
planesremoved(r, batch, i) ==
    IF i > Len(batch) THEN r
    ELSE planesremoved(removePlane(r, batch[i].identifier), batch, i + 1)

\* planesupdated that removes every plane of the batch first and adds them
\* all afterwards.
planesupdatedRemovesAllFirst(r, batch, draws, i) ==
    planesadded(planesremoved(r, batch, 1), batch, draws, i)

RECURSIVE planesupdated(_, _, _, _)
planesupdated(r, batch, draws, i) ==
    IF i > Len(batch) THEN r
    ELSE planesupdated(addPlane(removePlane(r, batch[i].identifier), batch[i], draws[i]),
                       batch, draws, i + 1)

\* update that counts the attached children instead of the map's entries.
updateCountsChildren(r) == Len(r.children)

update(r) == Cardinality(DOMAIN r.planes)

\* ------------------------------------------------------------ history
Ids(batch) == {batch[i].identifier : i \in 1..Len(batch)}

\* present after one more plane of an added / updated / removed batch.
RECURSIVE presentAfter(_, _, _, _)
presentAfter(set, type, batch, i) ==
    IF i > Len(batch) THEN set
    ELSE LET id    == batch[i].identifier
             empty == Len(batch[i].vertices) = 0
             next  == CASE type = "planesadded"   -> IF empty THEN set ELSE set \cup {id}
                        [] type = "planesupdated" -> IF empty THEN set \ {id} ELSE set \cup {id}
                        [] OTHER                  -> set \ {id}
         IN  presentAfter(next, type, batch, i + 1)

\* ------------------------------------------------------------ the page
Undefined == [undefined |-> TRUE]
Display   == [display |-> TRUE]

\* A VRHit: the pose of a surface intersection.
Hits == {[position |-> <<1, 0, 2>>, orientation |-> "surface-a"],
         [position |-> <<5, 0, 1>>, orientation |-> "surface-b"]}

\* What vrDisplay.hitTest(x, y) may return: a list of hits, possibly empty
\* (a null return takes the same branch of onClick as the empty list).
HitLists == UNION {[1..n -> Hits] : n \in 0..MaxHits}

\* A touchstart event: whether e.touches[0] is there.
TouchEvents == {[first |-> TRUE], [first |-> FALSE]}

NoTouch == [type |-> "none"]
NoCall  == [called |-> FALSE]

\* collada.scene as the loader callback leaves it: scale 0.03 (in
\* hundredths), at the origin, not rotated.
LoadedElf == [position |-> <<0, 0, 0>>, quaternion |-> "identity", scale |-> 3]

\* THREE.ARUtils.placeObjectAtHit(object, hit, applyOrientation, easing),
\* for the easing of 1 the page passes: the object snaps to the hit's
\* position, and to its orientation when applyOrientation is set.
placeObjectAtHit(object, hit, applyOrientation, easing) ==
    [object EXCEPT !.position   = hit.position,
                   !.quaternion = IF applyOrientation THEN hit.orientation ELSE @]

AppInit ==
    /\ boot = "pending"
    /\ vrDisplay = Undefined
    /\ initCalls = 0
    /\ unsupported = FALSE
    /\ renderer = FALSE
    /\ touchstart = FALSE
    /\ frames = 0
    /\ elf = Undefined
    /\ touch = NoTouch

\* init(): renderer and scene set up, the model load started, onClick bound
\* and the render loop kicked off with its first update().
init ==
    /\ initCalls' = initCalls + 1
    /\ renderer' = TRUE
    /\ touchstart' = TRUE
    /\ frames' = 1
    /\ UNCHANGED <<elf, touch>>

\* The callback of getARDisplay().then that runs init() whatever it got.
gotARDisplayAlwaysInits(display) ==
    /\ boot = "pending"
    /\ boot' = IF display # Undefined THEN "supported" ELSE "unsupported"
    /\ vrDisplay' = display
    /\ unsupported' = FALSE
    /\ init

\* The callback of getARDisplay().then.
gotARDisplay(display) ==
    /\ boot = "pending"
    /\ IF display # Undefined
       THEN /\ boot' = "supported"
            /\ vrDisplay' = display
            /\ init
            /\ UNCHANGED unsupported
       ELSE /\ boot' = "unsupported"
            /\ unsupported' = TRUE
            /\ UNCHANGED <<vrDisplay, initCalls, renderer, touchstart, frames, elf, touch>>

\* The callback of loader.load: elf = collada.scene, scaled.
loaded ==
    /\ initCalls > 0
    /\ elf = Undefined
    /\ elf' = LoadedElf
    /\ UNCHANGED <<boot, vrDisplay, initCalls, unsupported, renderer, touchstart,
                   frames, touch>>

\* update() once more, from requestAnimationFrame.
frame ==
    /\ frames >= 1
    /\ frames < MaxFrames
    /\ frames' = frames + 1
    /\ UNCHANGED <<boot, vrDisplay, initCalls, unsupported, renderer, touchstart,
                   elf, touch>>

\* onClick(e) with `hits` what vrDisplay.hitTest returns.  The call of
\* placeObjectAtHit and the writes after it throw a TypeError while elf is
\* undefined.
onClick(e, hits) ==
    /\ touchstart
    /\ IF ~e.first
       THEN /\ touch' = [type |-> "touchstart", first |-> FALSE, hits |-> <<>>,
                         call |-> NoCall, threw |-> FALSE]
            /\ UNCHANGED elf
       ELSE IF Len(hits) = 0
       THEN /\ touch' = [type |-> "touchstart", first |-> TRUE, hits |-> hits,
                         call |-> NoCall, threw |-> FALSE]
            /\ UNCHANGED elf
       ELSE LET hit  == hits[1]
                call == [called |-> TRUE, object |-> elf, hit |-> hit,
                         applyOrientation |-> TRUE, easing |-> 1]
            IN  IF elf = Undefined
                THEN /\ touch' = [type |-> "touchstart", first |-> TRUE, hits |-> hits,
                                  call |-> call, threw |-> TRUE]
                     /\ UNCHANGED elf
                ELSE LET placed == placeObjectAtHit(elf, hit, TRUE, 1)
                     IN  /\ elf' = [placed EXCEPT
                                      !.scale      = 3,
                                      !.quaternion = "euler(90, 180, 180)",
                                      !.position   = <<placed.position[1] + 17,
                                                       placed.position[2],
                                                       placed.position[3]>>]
                         /\ touch' = [type |-> "touchstart", first |-> TRUE, hits |-> hits,
                                      call |-> call, threw |-> FALSE]
    /\ UNCHANGED <<boot, vrDisplay, initCalls, unsupported, renderer, touchstart, frames>>

GotARDisplay == \E display \in {Display, Undefined} : gotARDisplay(display) /\ UNCHANGED regVars
Loaded       == loaded /\ UNCHANGED regVars
Frame        == frame /\ UNCHANGED regVars
TouchStart   == \E e \in TouchEvents, hits \in HitLists : onClick(e, hits) /\ UNCHANGED regVars

AppNext == GotARDisplay \/ Loaded \/ Frame \/ TouchStart

\* ------------------------------------------------------------ state machine
Registry == [planes |-> planes, children |-> children,
             materialMap |-> materialMap, nextId |-> nextId]

Install(r) ==
    /\ r.nextId <= MaxObjs + 1
    /\ planes' = r.planes
    /\ children' = r.children
    /\ materialMap' = r.materialMap
    /\ nextId' = r.nextId

Init ==
    /\ planes = <<>>
    /\ children = <<>>
    /\ materialMap = <<>>
    /\ nextId = 1
    /\ last = [type |-> "constructor", planes |-> <<>>]
    /\ reported = {}
    /\ present = {}
    /\ AppInit

\* vrDisplay dispatches planesadded with a batch of `batches`.
OnPlanesAdded(batches) ==
    \E batch \in batches : \E draws \in Draws(batch) :
        /\ Install(planesadded(Registry, batch, draws, 1))
        /\ last' = [type |-> "planesadded", planes |-> batch]
        /\ reported' = reported \cup Ids(batch)
        /\ present' = presentAfter(present, "planesadded", batch, 1)
        /\ UNCHANGED appVars

OnPlanesUpdated(batches) ==
    \E batch \in batches : \E draws \in Draws(batch) :
        /\ Install(planesupdated(Registry, batch, draws, 1))
        /\ last' = [type |-> "planesupdated", planes |-> batch]
        /\ reported' = reported \cup Ids(batch)
        /\ present' = presentAfter(present, "planesupdated", batch, 1)
        /\ UNCHANGED appVars

OnPlanesRemoved(batches) ==
    \E batch \in batches :
        /\ Install(planesremoved(Registry, batch, 1))
        /\ last' = [type |-> "planesremoved", planes |-> batch]
        /\ reported' = reported \ Ids(batch)
        /\ present' = presentAfter(present, "planesremoved", batch, 1)
        /\ UNCHANGED appVars

PlanesAdded   == OnPlanesAdded(Batches)
PlanesUpdated == OnPlanesUpdated(Batches)
PlanesRemoved == OnPlanesRemoved(Batches)

\* The application polls update().
Update ==
    /\ last' = [type |-> "update", planes |-> <<>>, ret |-> update(Registry)]
    /\ UNCHANGED <<planes, children, materialMap, nextId, reported, present>>
    /\ UNCHANGED appVars

Next == PlanesAdded \/ PlanesUpdated \/ PlanesRemoved \/ Update

Spec == Init /\ [][Next]_vars

\* The geometry runs: the same listeners, fed one plane at a time with every
\* vertex count up to MaxVerts.
GeoPlanesAdded   == OnPlanesAdded(GeoBatches)
GeoPlanesUpdated == OnPlanesUpdated(GeoBatches)
GeoPlanesRemoved == OnPlanesRemoved(GeoBatches)

GeoNext == GeoPlanesAdded \/ GeoPlanesUpdated \/ GeoPlanesRemoved \/ Update

SpecGeometry == Init /\ [][GeoNext]_vars

\* The transform runs: the same listeners, fed one plane at a time with
\* every model matrix.
MatrixPlanesAdded   == OnPlanesAdded(MatrixBatches)
MatrixPlanesUpdated == OnPlanesUpdated(MatrixBatches)
MatrixPlanesRemoved == OnPlanesRemoved(MatrixBatches)

MatrixNext == MatrixPlanesAdded \/ MatrixPlanesUpdated \/ MatrixPlanesRemoved \/ Update

SpecMatrix == Init /\ [][MatrixNext]_vars

\* The device assumption: no batch repeats an identifier, and a planesadded
\* batch names no identifier that is tracked.
NoRepeat(batch) == \A i, j \in 1..Len(batch) :
                      batch[i].identifier = batch[j].identifier => i = j
DeviceBatches == {batch \in Batches : NoRepeat(batch)}
UnseenBatches == {batch \in DeviceBatches : Ids(batch) \cap DOMAIN planes = {}}

DevicePlanesAdded   == OnPlanesAdded(UnseenBatches)
DevicePlanesUpdated == OnPlanesUpdated(DeviceBatches)
DevicePlanesRemoved == OnPlanesRemoved(DeviceBatches)

DeviceNext == DevicePlanesAdded \/ DevicePlanesUpdated \/ DevicePlanesRemoved \/ Update

SpecDevice == Init /\ [][DeviceNext]_vars

\* The ordering runs: one notification about one identifier at a time.
SinglePlanesAdded   == OnPlanesAdded(SingleBatches)
SinglePlanesUpdated == OnPlanesUpdated(SingleBatches)
SinglePlanesRemoved == OnPlanesRemoved(SingleBatches)

SingleNext == SinglePlanesAdded \/ SinglePlanesUpdated \/ SinglePlanesRemoved \/ Update

SpecOrder == Init /\ [][SingleNext]_vars

\* The page on its own: the display lookup, the model load, frames, touches.
SpecApp == Init /\ [][AppNext]_vars

\* ------------------------------------------------------------ properties
Tracked  == DOMAIN planes
Attached == {children[i] : i \in 1..Len(children)}
Recorded == {planes[id] : id \in DOMAIN planes}

IsEmpty(plane) == Len(plane.vertices) = 0
Delivered(type) == last.type = type /\ Len(last.planes) >= 1

\* C1 as stated: after every batch the key set of `planes` is the set of
\* identifiers named by an added or updated plane (whatever its vertex list)
\* and by no later removal.
C1_TrackedIsReported == Tracked = reported

\* C1, amended: after every batch the key set of `planes` is the set of
\* identifiers last added or updated with a plane that has vertices and not
\* removed since, where an updated plane without vertices removes its
\* identifier and an added plane without vertices changes nothing.
C1_TrackedIsPresent == Tracked = present

\* p1 was tracked and has been dropped by an update without vertices, while
\* p2 is tracked.
C1_Witness ==
    /\ Delivered("planesupdated")
    /\ last.planes[Len(last.planes)].identifier = "p1"
    /\ IsEmpty(last.planes[Len(last.planes)])
    /\ "p1" \in DOMAIN materialMap
    /\ Tracked = {"p2"}
    /\ reported = {"p1", "p2"}

\* C2: the attached children are exactly the renderables recorded in
\* `planes`, one per tracked identifier.
C2_ChildrenAreRecorded ==
    /\ Attached = Recorded
    /\ Len(children) = Cardinality(Tracked)

\* C3: after a planesremoved batch no removed identifier has a material in
\* materialMap.
C3_RemovedHasNoMaterial ==
    last.type = "planesremoved" =>
        \A i \in 1..Len(last.planes) :
            last.planes[i].identifier \notin DOMAIN materialMap

\* ---- helpers of the step properties
RegVars == <<planes, children, materialMap, nextId>>

\* The points of a flat vertex list, three numbers each.
Points(vertices) ==
    [k \in 1..(Len(vertices) \div 3) |->
        <<vertices[3 * k - 2], vertices[3 * k - 1], vertices[3 * k]>>]

\* The triangle fan over n points: (0, f + 1, f + 2) for f = 0 .. n - 3.
Fan(n) == [k \in 1..(IF n >= 3 THEN n - 2 ELSE 0) |-> <<0, k, k + 1>>]

\* The position of the last plane of `batch` for identifier id (0: none).
LastIndex(batch, id) ==
    LET at == {i \in 1..Len(batch) : batch[i].identifier = id}
    IN  IF at = {} THEN 0 ELSE CHOOSE i \in at : \A j \in at : j <= i

\* C4: a planesupdated plane with vertices for a tracked identifier X leaves
\* X tracked by a new renderable that uses the material X had before, built
\* from the new vertices; the stored material of X is never replaced.
C4_ColorStableAcrossUpdate ==
    [][last'.type = "planesupdated" =>
        \A X \in Tracked \cap Ids(last'.planes) :
            LET p == last'.planes[LastIndex(last'.planes, X)]
            IN  /\ X \in DOMAIN materialMap'
                /\ materialMap'[X] = planes[X].mesh.material
                /\ ~IsEmpty(p) =>
                      /\ X \in DOMAIN planes'
                      /\ planes'[X].id # planes[X].id
                      /\ planes'[X].mesh.material = planes[X].mesh.material
                      /\ planes'[X].mesh.geometry.vertices = Points(p.vertices)]_vars

\* p1, first drawn as object 1, is tracked after an update by object 2, a
\* quad, with the material cloned for object 1.
C4_Witness ==
    /\ Delivered("planesupdated")
    /\ last.planes[1].identifier = "p1"
    /\ "p1" \in Tracked
    /\ planes["p1"].id = 2
    /\ planes["p1"].mesh.material.id = 1
    /\ Len(planes["p1"].mesh.geometry.vertices) = 4
    /\ children = <<planes["p1"]>>

\* C5: a planesadded batch whose planes all have an empty vertex list
\* changes nothing: no entry, no child, no material, no object, and so the
\* same update() count.
C5_EmptyUpsertNoMutation ==
    [][(/\ last'.type = "planesadded"
        /\ Len(last'.planes) >= 1
        /\ \A i \in 1..Len(last'.planes) : IsEmpty(last'.planes[i]))
       => /\ UNCHANGED RegVars
          /\ update([planes |-> planes', children |-> children',
                     materialMap |-> materialMap', nextId |-> nextId'])
               = update(Registry)]_vars

\* Two planes without vertices were added to the empty registry, which is
\* still empty.
C5_Witness ==
    /\ Delivered("planesadded")
    /\ Len(last.planes) = 2
    /\ \A i \in 1..Len(last.planes) : IsEmpty(last.planes[i])
    /\ Tracked = {} /\ children = <<>> /\ materialMap = <<>> /\ nextId = 1

\* C6 as stated: neither a planesadded nor a planesupdated batch removes an
\* identifier from the tracked set.
C6_OnlyRemovalDeletes ==
    [][last'.type \in {"planesadded", "planesupdated"} =>
        Tracked \subseteq DOMAIN planes']_vars

\* C6, amended: a planesadded batch never removes a tracked identifier; a
\* planesupdated batch removes exactly the tracked identifiers whose last
\* plane in the batch has an empty vertex list.
C6_OnlyRemovalOrEmptyUpdateDeletes ==
    [][/\ last'.type = "planesadded" => Tracked \subseteq DOMAIN planes'
       /\ last'.type = "planesupdated" =>
             \A X \in Tracked :
                 X \notin DOMAIN planes' <=>
                     /\ X \in Ids(last'.planes)
                     /\ IsEmpty(last'.planes[LastIndex(last'.planes, X)])]_vars

\* A plane without vertices was added for p1 while p1 is tracked.
C6_Witness ==
    /\ Delivered("planesadded")
    /\ \E i \in 1..Len(last.planes) :
           last.planes[i].identifier = "p1" /\ IsEmpty(last.planes[i])
    /\ \A i \in 1..Len(last.planes) : IsEmpty(last.planes[i])
    /\ "p1" \in Tracked
    /\ children = <<planes["p1"]>>

\* C7: a planesremoved batch leaves none of its identifiers tracked, and one
\* that names only untracked identifiers (as a repeated removal does)
\* changes neither the tracked set, the children nor the count.
C7_RemovalIdempotent ==
    [][last'.type = "planesremoved" =>
        /\ Ids(last'.planes) \cap DOMAIN planes' = {}
        /\ Ids(last'.planes) \cap Tracked = {} => UNCHANGED RegVars]_vars

\* p1 was removed twice in one batch; p2 is still tracked and attached.
C7_Witness ==
    /\ Delivered("planesremoved")
    /\ Len(last.planes) = 2
    /\ Ids(last.planes) = {"p1"}
    /\ "p1" \in DOMAIN materialMap
    /\ Tracked = {"p2"}
    /\ children = <<planes["p2"]>>

\* C8: a plane of n >= 1 vertices added or updated on its own gets a new
\* renderable holding its n points and exactly the triangles (0, f + 1,
\* f + 2) for f = 0 .. n - 3 in that order (none when n < 3); a plane of no
\* vertices gets no renderable; and every attached renderable has at least
\* one point and the fan over its points.
C8_Triangulation ==
    [][/\ \A i \in 1..Len(children') :
              LET geo == children'[i].mesh.geometry
              IN  Len(geo.vertices) >= 1 /\ geo.faces = Fan(Len(geo.vertices))
       /\ (last'.type \in {"planesadded", "planesupdated"} /\ Len(last'.planes) = 1) =>
              LET p  == last'.planes[1]
                  id == p.identifier
                  n  == Len(p.vertices) \div 3
              IN  IF n = 0
                  THEN /\ nextId' = nextId
                       /\ \A i \in 1..Len(children') : children'[i] \in Attached
                  ELSE /\ nextId' = nextId + 1
                       /\ id \in DOMAIN planes'
                       /\ planes'[id].id = nextId
                       /\ planes'[id] = children'[Len(children')]
                       /\ planes'[id].mesh.geometry.vertices = Points(p.vertices)
                       /\ planes'[id].mesh.geometry.faces = Fan(n)
                       /\ Len(planes'[id].mesh.geometry.faces)
                            = IF n >= 3 THEN n - 2 ELSE 0]_vars

\* The quad of p1 was added: two triangles, (0, 1, 2) and (0, 2, 3).
C8_Witness ==
    /\ Delivered("planesadded")
    /\ last.planes[1].identifier = "p1"
    /\ last.planes[1].vertices = PlaneVertices(4)
    /\ "p1" \in Tracked
    /\ planes["p1"].mesh.geometry.faces = << <<0, 1, 2>>, <<0, 2, 3>> >>
    /\ Len(planes["p1"].mesh.geometry.vertices) = 4

RECURSIVE OneByOne(_, _, _, _)
OneByOne(r, batch, draws, i) ==
    IF i > Len(batch) THEN r
    ELSE OneByOne(planesadded(planesremoved(r, <<batch[i]>>, 1),
                              <<batch[i]>>, <<draws[i]>>, 1),
                  batch, draws, i + 1)

\* The registry after the step equals that of the events one by one.
SameAsOneByOne ==
    \E draws \in Draws(last'.planes) :
        <<planes', children', materialMap', nextId'>>
          = LET r == OneByOne(Registry, last'.planes, draws, 1)
            IN  <<r.planes, r.children, r.materialMap, r.nextId>>

\* The renderable X had before the step is detached after it.
StaleDetached(X) == planes[X] \notin {children'[i] : i \in 1..Len(children')}

\* X is tracked after the step by an attached renderable built from plane p.
TrackedFrom(X, p) ==
    /\ X \in DOMAIN planes'
    /\ planes'[X].mesh.geometry.vertices = Points(p.vertices)
    /\ planes'[X] \in {children'[i] : i \in 1..Len(children')}

\* The identifiers a batch carries more than once.
Repeated(batch) ==
    {batch[i].identifier : i \in {j \in 1..Len(batch) : LastIndex(batch, batch[j].identifier) # j}}

\* C10 as stated: a planesupdated batch gives the registry of a
\* planesremoved and a planesadded event per plane in order, detaches the
\* stale renderables, and leaves every identifier it carries twice tracked
\* and attached by its last plane.
C10_UpdateKeepsLastPlane ==
    [][last'.type = "planesupdated" =>
        /\ SameAsOneByOne
        /\ \A X \in Tracked \cap Ids(last'.planes) : StaleDetached(X)
        /\ \A X \in Repeated(last'.planes) :
               TrackedFrom(X, last'.planes[LastIndex(last'.planes, X)])]_vars

\* C10, amended: as stated, except that an identifier carried twice whose
\* last plane has an empty vertex list ends untracked; one whose last plane
\* has vertices is tracked and attached by that plane.
C10_UpdateKeepsLastPlaneWithVertices ==
    [][last'.type = "planesupdated" =>
        /\ SameAsOneByOne
        /\ \A X \in Tracked \cap Ids(last'.planes) : StaleDetached(X)
        /\ \A X \in Repeated(last'.planes) :
               LET p == last'.planes[LastIndex(last'.planes, X)]
               IN  IF IsEmpty(p)
                   THEN X \notin DOMAIN planes'
                   ELSE TrackedFrom(X, p)]_vars

\* One update carried p1 twice, both times with vertices: the renderable
\* built for the first plane is detached again, the one built for the
\* second is tracked and is the only child, with the material of the first.
C10_Witness ==
    /\ Delivered("planesupdated")
    /\ Len(last.planes) = 2
    /\ Ids(last.planes) = {"p1"}
    /\ \A i \in 1..2 : ~IsEmpty(last.planes[i])
    /\ Tracked = {"p1"}
    /\ planes["p1"].id = nextId - 1
    /\ children = <<planes["p1"]>>
    /\ materialMap["p1"].id = nextId - 2

\* The entry of a Matrix4 at row r, column c (from 0).
Entry(matrix, r, c) == matrix.elements[4 * c + r + 1]

\* C13: the renderable built for a plane has matrixAutoUpdate = false and a
\* matrix whose entry at row r, column c is modelMatrix[4 * c + r], for all
\* r, c in 0..3: the sixteen column-major values unchanged.
C13_MatrixIsModelMatrix ==
    [][(/\ last'.type \in {"planesadded", "planesupdated"}
        /\ Len(last'.planes) = 1
        /\ ~IsEmpty(last'.planes[1]))
       => LET p   == last'.planes[1]
              obj == planes'[p.identifier]
          IN  /\ obj.id = nextId
              /\ obj.matrixAutoUpdate = FALSE
              /\ \A r \in 0..3, c \in 0..3 :
                     Entry(obj.matrix, r, c) = p.modelMatrix[4 * c + r + 1]
              /\ obj.matrix.elements = p.modelMatrix]_vars

\* p1 was added with the translation by (7, 8, 9): row 0..2 of column 3
\* of its renderable's matrix hold 7, 8, 9.
C13_Witness ==
    /\ Delivered("planesadded")
    /\ last.planes[1].identifier = "p1"
    /\ last.planes[1].modelMatrix = TranslationMatrix
    /\ "p1" \in Tracked
    /\ planes["p1"].matrixAutoUpdate = FALSE
    /\ Entry(planes["p1"].matrix, 0, 3) = 7
    /\ Entry(planes["p1"].matrix, 1, 3) = 8
    /\ Entry(planes["p1"].matrix, 2, 3) = 9
    /\ Entry(planes["p1"].matrix, 3, 0) = 0

\* C14: under the device assumption the children are the values of
\* `planes`: every tracked identifier has exactly one attached renderable,
\* its entry, and every attached renderable is the entry of a tracked
\* identifier.
C14_ChildrenAreTheValues ==
    /\ \A id \in Tracked :
          Cardinality({i \in 1..Len(children) : children[i] = planes[id]}) = 1
    /\ \A i \in 1..Len(children) :
          \E id \in Tracked : children[i] = planes[id]
    /\ \A i, j \in 1..Len(children) : children[i] = children[j] => i = j

\* p1 was added, removed and added again: one child, the second renderable
\* built, which is p1's entry.
C14_Witness ==
    /\ Delivered("planesadded")
    /\ Ids(last.planes) = {"p1"}
    /\ Tracked = {"p1"}
    /\ Len(children) = 1
    /\ children[1] = planes["p1"]
    /\ planes["p1"].id = 2

\* C15: every identifier of `planes` has a material in materialMap, and the
\* mesh of its renderable uses that very material; the keys of materialMap
\* include the keys of `planes`.
C15_MeshUsesStoredMaterial ==
    /\ DOMAIN planes \subseteq DOMAIN materialMap
    /\ \A id \in DOMAIN planes : planes[id].mesh.material = materialMap[id]

\* p1 was updated: its second renderable carries the material stored with
\* the first.
C15_Witness ==
    /\ Delivered("planesupdated")
    /\ "p1" \in Tracked
    /\ planes["p1"].id = 2
    /\ planes["p1"].mesh.material.id = 1
    /\ materialMap["p1"].id = 1

\* A notification about one identifier: the event type, the plane and the
\* colour createPlane would draw for it.
Notes(X) == {[type |-> t, plane |-> p, color |-> c] :
                t \in {"planesadded", "planesupdated", "planesremoved"},
                p \in {q \in PlanesOf({0, 3}) : q.identifier = X},
                c \in Palette}

\* The registry after the listener of n.type has run on <<n.plane>>.
Notify(r, n) ==
    CASE n.type = "planesadded"   -> planesadded(r, <<n.plane>>, <<n.color>>, 1)
      [] n.type = "planesupdated" -> planesupdated(r, <<n.plane>>, <<n.color>>, 1)
      [] n.type = "planesremoved" -> planesremoved(r, <<n.plane>>, 1)

IsChild(r, obj) == \E i \in 1..Len(r.children) : r.children[i] = obj

\* Y has in s the entry, the attached renderable and the material it has
\* in r.
Untouched(r, s, Y) ==
    /\ Y \in DOMAIN s.planes <=> Y \in DOMAIN r.planes
    /\ Y \in DOMAIN r.planes =>
          /\ s.planes[Y] = r.planes[Y]
          /\ IsChild(s, r.planes[Y]) <=> IsChild(r, r.planes[Y])
    /\ Y \in DOMAIN s.materialMap <=> Y \in DOMAIN r.materialMap
    /\ Y \in DOMAIN r.materialMap => s.materialMap[Y] = r.materialMap[Y]

\* What a renderable holds, whichever object it is.
Holds(obj) == [matrixAutoUpdate |-> obj.matrixAutoUpdate,
               matrix           |-> obj.matrix,
               geometry         |-> obj.mesh.geometry,
               backgroundColor  |-> obj.mesh.material.backgroundColor]

\* Two registries track the same identifiers with entries that hold the
\* same, and colour the same identifiers alike.
SameEntries(a, b) ==
    /\ DOMAIN a.planes = DOMAIN b.planes
    /\ \A id \in DOMAIN a.planes : Holds(a.planes[id]) = Holds(b.planes[id])
    /\ DOMAIN a.materialMap = DOMAIN b.materialMap
    /\ \A id \in DOMAIN a.materialMap :
          a.materialMap[id].backgroundColor = b.materialMap[id].backgroundColor

\* C16: from every reachable registry, a notification about X leaves the
\* entry, the attached renderable and the material of every other
\* identifier Y as they are, and two notifications about distinct
\* identifiers give the same tracked set and the same entries in either
\* order.
C16_IndependentPerIdentifier ==
    \A X \in Identifiers : \A Y \in Identifiers \ {X} :
        \A n \in Notes(X) :
            /\ Untouched(Registry, Notify(Registry, n), Y)
            /\ \A m \in Notes(Y) :
                  SameEntries(Notify(Notify(Registry, n), m),
                              Notify(Notify(Registry, m), n))

\* p2 was removed while p1 was tracked: p1 still has its entry, its
\* renderable is attached and its material stored; and adding p2 then
\* updating p1 gives other children than updating p1 then adding p2.
C16_Witness ==
    /\ Delivered("planesremoved")
    /\ Ids(last.planes) = {"p2"}
    /\ Tracked = {"p1"}
    /\ children = <<planes["p1"]>>
    /\ "p1" \in DOMAIN materialMap
    /\ "p2" \in DOMAIN materialMap
    /\ \E n \in Notes("p1"), m \in Notes("p2") :
          /\ n.type = "planesupdated" /\ m.type = "planesadded"
          /\ ~IsEmpty(n.plane) /\ ~IsEmpty(m.plane)
          /\ Notify(Notify(Registry, n), m).children
                # Notify(Notify(Registry, m), n).children

\* The registry after the step.
RegistryAfter == [planes |-> planes', children |-> children',
                  materialMap |-> materialMap', nextId |-> nextId']

\* C18: a plane of 1 or 2 vertices added or updated on its own is not
\* skipped: a new renderable with its points and no triangle is attached
\* and recorded for the identifier, the identifier has a colour, and
\* update() counts it.  Of all vertex lists only the empty one builds no
\* renderable.
C18_DegenerateIsTracked ==
    [][(last'.type \in {"planesadded", "planesupdated"} /\ Len(last'.planes) = 1) =>
          LET p  == last'.planes[1]
              id == p.identifier
              n  == Len(p.vertices) \div 3
          IN  /\ n \in {1, 2} =>
                    /\ id \in DOMAIN planes'
                    /\ planes'[id].id = nextId
                    /\ Len(planes'[id].mesh.geometry.vertices) = n
                    /\ planes'[id].mesh.geometry.faces = <<>>
                    /\ Len(children') >= 1
                    /\ children'[Len(children')] = planes'[id]
                    /\ id \in DOMAIN materialMap'
                    /\ materialMap'[id].backgroundColor \in Palette
                    /\ planes'[id].mesh.material = materialMap'[id]
                    /\ update(RegistryAfter) = Cardinality(Tracked \cup {id})
                    /\ update(RegistryAfter) >= 1
              /\ (n = 0) <=> (nextId' = nextId)
              /\ (n = 0) => \A i \in 1..Len(children') : children'[i] \in Attached]_vars

\* The single point of p1 was added and update() polled: it returned 1,
\* for a renderable of one point and no triangle.
C18_Witness ==
    /\ last.type = "update"
    /\ last.ret = 1
    /\ Tracked = {"p1"}
    /\ Len(planes["p1"].mesh.geometry.vertices) = 1
    /\ planes["p1"].mesh.geometry.faces = <<>>
    /\ children = <<planes["p1"]>>
    /\ "p1" \in DOMAIN materialMap

\* ------------------------------------------------------------ the page's properties
\* C11: when getARDisplay resolves with no display the unsupported message
\* is shown and init() never runs (no renderer, no touchstart handler, no
\* frame); when it resolves with a display init() has run exactly once,
\* with that display in vrDisplay, and no message is shown.
C11_UnsupportedIsAMessage ==
    /\ boot = "pending" => initCalls = 0 /\ ~unsupported
    /\ boot = "unsupported" =>
          /\ unsupported
          /\ initCalls = 0
          /\ ~renderer /\ ~touchstart /\ frames = 0
          /\ elf = Undefined /\ touch = NoTouch
    /\ boot = "supported" =>
          /\ ~unsupported
          /\ initCalls = 1
          /\ vrDisplay = Display
          /\ renderer /\ touchstart /\ frames >= 1

\* getARDisplay resolved with no display.
C11_Witness == boot = "unsupported" /\ unsupported /\ vrDisplay = Undefined

\* A step that is one run of onClick.
TouchStep ==
    /\ touch'.type = "touchstart"
    /\ UNCHANGED <<boot, frames, initCalls>>
    /\ ~(elf = Undefined /\ elf' # Undefined)

\* C12: on every touchstart the object is placed if and only if the event
\* carries a first touch and hitTest returns a non-empty list; it is placed
\* by hits[0] with orientation applied and easing 1; otherwise its pose is
\* unchanged.
C12_PlacedIffFirstHit ==
    [][TouchStep =>
        LET hasHit == touch'.first /\ Len(touch'.hits) > 0
            placed == /\ touch'.call.called
                      /\ ~touch'.threw
                      /\ elf' # Undefined
        IN  /\ hasHit <=> placed
            /\ placed =>
                  /\ touch'.call.hit = touch'.hits[1]
                  /\ touch'.call.applyOrientation
                  /\ touch'.call.easing = 1
                  /\ elf'.position[2] = touch'.hits[1].position[2]
                  /\ elf'.position[3] = touch'.hits[1].position[3]
            /\ ~hasHit => elf' = elf]_vars

\* C17: placeObjectAtHit is only ever invoked with a defined object (the
\* loader callback has assigned elf).
C17_PlacedOnlyWhenLoaded ==
    (touch.type = "touchstart" /\ touch.call.called) => touch.call.object # Undefined

====
